---- MODULE Spec2Model ----
(***************************************************************************)
(* Model of sofenn/SelfOrganizer.py: the self-organising control loop of   *)
(* a fuzzy neural network (self_organize, organize, widen_centers,         *)
(* add_neuron, new_neuron_weights, min_dist_vector, prune_neurons).        *)
(*                                                                         *)
(* Conventions.                                                            *)
(*  - Neurons (columns) and features (rows) are numbered from 1 here and   *)
(*    from 0 in the Python source: index j here is index j-1 there.        *)
(*  - C[j][f], S[j][f] are c[f, j], s[f, j] of the 'FuzzyRules' layer;     *)
(*    A[j] is column j of the consequent-weight matrix a.                  *)
(*  - A width is kept exactly as b * ksig^k: the record [b |-> b, k |-> k] *)
(*    with ksig = KsigNum / KsigDen = 1.12.                                *)
(*  - Mean absolute errors are integers in hundredths (8 is 0.08).         *)
(*  - The source is a refactoring in progress: it calls self._train_model, *)
(*    self._get_layer_weights, self._new_neuron_weights, ... and keeps the *)
(*    neuron count both as self.__neurons and as self.network.neurons.     *)
(*    The model reads the underscore names as the methods of the same name *)
(*    and the two counts as the one neuron count of the network.           *)
(*  - FuzzyNetwork (training, prediction, the two criteria, layer output)  *)
(*    is not part of the source file.  Its results are inputs here: the    *)
(*    criteria are two booleans that are drawn again whenever the model's  *)
(*    parameters change, trained consequent weights, layer outputs, trial  *)
(*    errors and the weights read back after set_weights are drawn from    *)
(*    small sets.                                                          *)
(***************************************************************************)
EXTENDS Integers, Sequences, FiniteSets, TLC

VARIABLES
    pc,            \* position in self_organize / organize
    neurons,       \* neuron count
    C, S, A,       \* weights of the live model, one entry per neuron
    errOK,         \* value of error_criterion() for the current parameters
    ifOK,          \* value of if_part_criterion() for the current parameters
    start_weights, \* organize: snapshot <<C, S>> taken at line 313
    counter,       \* widen_centers: iteration counter
    widens,        \* widen_centers: width multiplications done in this call
    widen_ret,     \* widen_centers: "None", "False", or "-" when not returned
    pre,           \* history: <<neurons, C, S, A>> on entry of the last add/prune
                   \* or of the last iteration of widen_centers
    prune_model,   \* history: consequent weights of prune_neurons' duplicate
                   \* model when the call returned
    prune_log,     \* history: what the last call of prune_neurons computed
    cap_reported,  \* self_organize: 'Maximum neurons reached' was printed
    final_weights, \* add_neuron: what line 414 read back, as the difference
                   \* from the written c_new and s_new; NoWeights outside the call
    y_pred_new,    \* organize: the model <<C, S, A>> the predictions of line 331
                   \* were computed from; NoWeights when there are none
    prune_calls,   \* history: calls of prune_neurons in the present organize step
    last_fuzz_out       \* history: the layer output read by the last iteration of
                   \* widen_centers

vars == <<pc, neurons, C, S, A, errOK, ifOK, start_weights, counter, widens,
          widen_ret, pre, prune_model, prune_log, cap_reported, final_weights,
          y_pred_new, prune_calls, last_fuzz_out>>

----------------------------------------------------------------------------
(* Bounds of the model *)

MaxNeurons == 2      \* max_neurons of the run (the cap of line 284)
NeuronLimit == 3     \* the model stops following a run that would grow past this
MaxWidens == 1       \* max_widens of the run
MaxExp == 1          \* the model follows a run while its widths together hold
                     \* at most this many factors ksig
PruneMaxN == 3       \* largest neuron count prune_neurons is entered with in PruneSpec
WidenMaxN == 2       \* largest neuron count widen_centers is entered with in WidenSpec

(* Program constants *)

KsigNum == 28        \* ksig = 1.12 = 28/25
KsigDen == 25
PruneTol == 85       \* prune_tol = 0.85, in hundredths
KMae == 10           \* k_mae = 0.1, in hundredths
S0 == 4              \* s_0 = 4.0, initial width
DistThresh == 1      \* dist_thresh of new_neuron_weights
RTolInv == 1000      \* 1 / rtol of the np.allclose of lines 415-416 (rtol = 1e-3)

(* Data and input domains *)

Features == {1, 2}
Samples == {1, 2}
\* X_train: one row per sample, one entry per feature
XTrain == << <<0, -4>>, <<4, 8>> >>
AVals == {0, 1}          \* values a trained consequent-weight column may take
FireVals == {0, 1}       \* values of the 'FuzzyRules' layer output
MAEVals == {8, 12}       \* MAE of a trial prediction
E0Vals == {5, 15}        \* MAE of the predictions passed to prune_neurons

Rows == 0 .. Cardinality(Features)   \* rows of a: bias and one per feature

NoWeights == << >>
NoLog == [n |-> 0, E100 |-> 0, delta_E |-> << >>, tried |-> << >>,
          deleted |-> << >>, predicts |-> 0, joint |-> 0, top_tried |-> FALSE]

----------------------------------------------------------------------------
(* Helpers *)

Max(a, b) == IF a >= b THEN a ELSE b

Abs(x) == IF x >= 0 THEN x ELSE -x

RECURSIVE Pow(_, _)
Pow(x, n) == IF n = 0 THEN 1 ELSE x * Pow(x, n - 1)

RECURSIVE SumOver(_, _)
\* sum of f[i] for i in the finite set D
SumOver(f, D) ==
    IF D = {} THEN 0
    ELSE LET i == CHOOSE x \in D : TRUE IN f[i] + SumOver(f, D \ {i})

Range(seq) == {seq[i] : i \in 1 .. Len(seq)}

\* a consequent-weight column with every row equal to v
ConstCol(v) == [r \in Rows |-> v]

\* w1 < w2 for widths b * ksig^k
WidthLess(w1, w2) ==
    IF w1.k >= w2.k
    THEN w1.b * Pow(KsigNum, w1.k - w2.k) < w2.b * Pow(KsigDen, w1.k - w2.k)
    ELSE w1.b * Pow(KsigDen, w2.k - w1.k) < w2.b * Pow(KsigNum, w2.k - w1.k)

\* the weights training can leave in a model of n neurons: every column the
\* same value of AVals, or the columns alternating between two values
TrainedA(n) ==
    {[j \in 1 .. n |-> ConstCol(v)] : v \in AVals}
        \cup {[j \in 1 .. n |-> ConstCol(j % 2)]}

----------------------------------------------------------------------------
(* widen_centers: choice of the width to multiply *)

\* an arg-max that takes the highest index holding the largest value
ArgMax_last(row, n) ==
    CHOOSE j \in 1 .. n :
        /\ \A m \in 1 .. n : row[m] <= row[j]
        /\ \A m \in 1 .. n : m > j => row[m] < row[j]

\* np.argmax(row): the lowest index holding the largest value
ArgMax(row, n) ==
    CHOOSE j \in 1 .. n :
        /\ \A m \in 1 .. n : row[m] <= row[j]
        /\ \A m \in 1 .. n : m < j => row[m] < row[j]

\* np.argmax(np.bincount(maxes)): the neuron that is the arg-max for most samples
MaxNeuron(fuzz_out, n) ==
    LET maxes == [i \in Samples |-> ArgMax(fuzz_out[i], n)]
        bincount == [j \in 1 .. n |-> Cardinality({i \in Samples : maxes[i] = j})]
    IN  ArgMax(bincount, n)

\* s[:, max_neuron].argmin(): the lowest feature holding the smallest width
MfMin(col) ==
    CHOOSE d \in Features :
        /\ \A e \in Features : ~WidthLess(col[e], col[d])
        /\ \A e \in Features : e < d => WidthLess(col[d], col[e])

\* a widening of every width of the neuron
Widened_column(s, k, d) ==
    [s EXCEPT ![k] = [f \in Features |-> [b |-> @[f].b, k |-> @[f].k + 1]]]

\* s[mf_min, max_neuron] = ksig * s[mf_min, max_neuron]
Widened(s, k, d) ==
    [s EXCEPT ![k] = [@ EXCEPT ![d] = [b |-> @.b, k |-> @.k + 1]]]

\* number of factors ksig held by the widths s
TotalExp(s) ==
    SumOver([j \in 1 .. Len(s) |-> SumOver([f \in Features |-> s[j][f].k], Features)],
            1 .. Len(s))

\* a test that bails out one iteration early
Bailout_early(c) == c >= MaxWidens

\* counter > self._max_widens
Bailout(c) == c > MaxWidens

\* a bailout that leaves the loop without returning False
BailoutResult_none == "None"

\* line 363: return False
BailoutResult == "False"

----------------------------------------------------------------------------
(* min_dist_vector and new_neuron_weights *)

NSamples == Cardinality(Samples)

\* x.mean(axis=0)[f]; the data are even numbers with even means, so that the
\* means and the distances below are integers
FeatureMean(f) == SumOver([i \in Samples |-> XTrain[i][f]], Samples) \div NSamples

\* aligned_c[i, f, j] of line 484.  c.repeat(samples) flattens c, feature by
\* feature, and repeats each entry samples times in a row; the reshape to
\* (samples, features, neurons) reads that sequence in order.  Entry [i, f, j]
\* is at position k of the sequence and holds entry k div samples of the
\* flattened c, which is not c[f, j] in general.
AlignedC(c, i, f, j) ==
    LET n == Len(c)
        k == ((i - 1) * Cardinality(Features) + (f - 1)) * n + (j - 1)
        q == k \div NSamples
    IN  c[(q % n) + 1][(q \div n) + 1]

\* min_dist[f, j] of line 488: mean over the samples of
\* |aligned_x[i, f, j] - aligned_c[i, f, j]|, aligned_x[i, f, j] being x[i, f]
MinDist(c, f, j) ==
    SumOver([i \in Samples |-> Abs(XTrain[i][f] - AlignedC(c, i, f, j))],
            Samples) \div NSamples

\* min_dist.argmin(axis=-1)[f]: the lowest neuron at the smallest distance
MinNeur(c, f) ==
    CHOOSE j \in 1 .. Len(c) :
        /\ \A m \in 1 .. Len(c) : MinDist(c, f, j) <= MinDist(c, f, m)
        /\ \A m \in 1 .. Len(c) : m < j => MinDist(c, f, j) < MinDist(c, f, m)

NewNeuronWeights(c, s) ==
    LET min_neurs == [f \in Features |-> MinNeur(c, f)]
        dist_vec  == [f \in Features |-> MinDist(c, f, min_neurs[f])]
        c_min     == [f \in Features |-> c[min_neurs[f]][f]]
        s_min     == [f \in Features |-> s[min_neurs[f]][f]]
        kd        == [f \in Features |-> FeatureMean(f) * DistThresh]
    IN  [ck |-> [f \in Features |->
                    IF dist_vec[f] <= kd[f] THEN c_min[f] ELSE FeatureMean(f)],
         sk |-> [f \in Features |->
                    IF dist_vec[f] <= kd[f] THEN s_min[f]
                    ELSE [b |-> dist_vec[f], k |-> 0]]]

----------------------------------------------------------------------------
(* prune_neurons *)

\* E = max(prune_tol * E_rmae, k_mae), times 100 (MAEs are in hundredths)
Tolerance100(E0) == Max(PruneTol * E0, KMae * 100)

\* E_rmae_del < E
Accepts(mae, E100) == mae * 100 < E100

\* delta_E.argsort(): an ascending order of the neurons; the order among equal
\* deltas is not fixed by the sort
ArgSort(delta, n) ==
    {p \in Permutations(1 .. n) :
        \A i \in 1 .. n - 1 : delta[p[i]] <= delta[p[i + 1]]}

\* a[:, j] = 0 for every j of zs
ZeroCols(a, zs) == [j \in 1 .. Len(a) |-> IF j \in zs THEN ConstCol(0) ELSE a[j]]

\* a search that takes all neurons as candidates
NumCandidates_all(n) == n

\* number of neurons in delta_E.argsort()[:-1]
NumCandidates(n) == n - 1

\* MAE of the prediction of the model with the columns of the set zs zeroed:
\* singles[j] for the one column j, cum[m] for the set of m > 1 columns that
\* the search comes to try
MaeZeroed(zs, singles, cum) ==
    IF Cardinality(zs) = 1 THEN singles[CHOOSE j \in zs : TRUE]
    ELSE cum[Cardinality(zs)]

\* a trial that zeroes the candidate alone
TrialMae_single(deleted, cand, i, singles, cum) == singles[cand]

\* MAE of the prediction with the columns of deleted and cand zeroed: a trial
\* of one column alone repeats the first loop's trial of that column
TrialMae(deleted, cand, i, singles, cum) ==
    IF deleted = << >> THEN singles[cand] ELSE cum[i]

RECURSIVE SearchLoop_continue(_, _, _, _, _, _, _)
\* a search that goes on to the next candidate after a failed one
SearchLoop_continue(cands, i, deleted, tried, singles, cum, E100) ==
    IF i > Len(cands) THEN [deleted |-> deleted, tried |-> tried]
    ELSE LET mae == TrialMae(deleted, cands[i], i, singles, cum)
         IN  SearchLoop_continue(cands, i + 1,
                                 IF Accepts(mae, E100) THEN Append(deleted, cands[i])
                                 ELSE deleted,
                                 Append(tried, mae), singles, cum, E100)

RECURSIVE SearchLoop(_, _, _, _, _, _, _)
\* lines 547-572: for neur in delta_E.argsort()[:-1]
SearchLoop(cands, i, deleted, tried, singles, cum, E100) ==
    IF i > Len(cands) THEN [deleted |-> deleted, tried |-> tried]
    ELSE LET mae == TrialMae(deleted, cands[i], i, singles, cum)
         IN  IF Accepts(mae, E100)
             THEN SearchLoop(cands, i + 1, Append(deleted, cands[i]),
                             Append(tried, mae), singles, cum, E100)
             ELSE [deleted |-> deleted, tried |-> Append(tried, mae)]

RECURSIVE Compress(_, _, _)
Compress(seq, keep, j) ==
    IF j > Len(seq) THEN << >>
    ELSE (IF keep[j] THEN <<seq[j]>> ELSE << >>) \o Compress(seq, keep, j + 1)

RECURSIVE NpDelete_shifting(_, _)
\* a deletion of one index after the other, each from the array as the previous
\* deletion left it
NpDelete_shifting(seq, deleted) ==
    IF deleted = << >> THEN seq
    ELSE NpDelete_shifting(
             Compress(seq, [j \in 1 .. Len(seq) |-> j # Head(deleted)], 1),
             Tail(deleted))

\* np.delete(arr, deleted, axis=-1)
NpDelete(seq, deleted) ==
    Compress(seq, [j \in 1 .. Len(seq) |-> j \notin Range(deleted)], 1)

\* a neuron count that drops by one whatever the number of deleted columns
DeletedCount_one(deleted) == 1

\* len(deleted) in self.__neurons -= len(deleted)
DeletedCount(deleted) == Len(deleted)

\* a prune_model that is the live model itself, not a duplicate
LiveWeights_alias(act_a, prune_a) == prune_a

\* the weights of self.model while the duplicate prune_model is being zeroed
LiveWeights(act_a, prune_a) == act_a

\* a guard that never finds the single neuron
OnlyOneNeuron_never(n) == n = 0

\* line 504: self.__neurons == 1
OnlyOneNeuron(n) == n = 1

----------------------------------------------------------------------------
(* State after build_network / compile_model: one neuron, its centre on a   *)
(* training sample, every width s_0, untrained consequent weights           *)

Init ==
    /\ pc = "train"
    /\ neurons = 1
    /\ C \in {<<XTrain[i]>> : i \in Samples}
    /\ S = <<[f \in Features |-> [b |-> S0, k |-> 0]]>>
    /\ A \in TrainedA(1)
    /\ errOK \in BOOLEAN
    /\ ifOK \in BOOLEAN
    /\ start_weights = NoWeights
    /\ counter = 0
    /\ widens = 0
    /\ widen_ret = "-"
    /\ pre = NoWeights
    /\ prune_model = NoWeights
    /\ prune_log = NoLog
    /\ cap_reported = FALSE
    /\ final_weights = NoWeights
    /\ y_pred_new = NoWeights
    /\ prune_calls = 0
    /\ last_fuzz_out = NoWeights

\* any mutation of the parameters gives the two criteria new values
Recheck ==
    /\ errOK' \in BOOLEAN
    /\ ifOK' \in BOOLEAN

----------------------------------------------------------------------------
(* self_organize *)

\* lines 268-273: initial training and evaluation
TrainModel ==
    /\ pc = "train"
    /\ A' \in TrainedA(neurons)
    /\ Recheck
    /\ pc' = "check"
    /\ UNCHANGED <<neurons, C, S, start_weights, counter, widens, widen_ret,
                   pre, prune_model, prune_log, cap_reported,
                   final_weights, y_pred_new, prune_calls, last_fuzz_out>>

\* line 279: while not error_criterion() and not if_part_criterion()
LoopCondition(err, ifp) == ~err /\ ~ifp

LoopEnter ==
    /\ pc = "check"
    /\ LoopCondition(errOK, ifOK)
    /\ pc' = "organize"
    /\ UNCHANGED <<neurons, C, S, A, errOK, ifOK, start_weights, counter,
                   widens, widen_ret, pre, prune_model, prune_log, cap_reported,
                   final_weights, y_pred_new, prune_calls, last_fuzz_out>>

\* lines 294-299: 'Self-Organization complete! If-Part and Error Criterion
\* satisfied' is printed (the run was built with debug on, the default)
SuccessReported == pc = "done"

\* lines 294-299: the loop is left, the terminal message is printed
LoopExit ==
    /\ pc = "check"
    /\ ~LoopCondition(errOK, ifOK)
    /\ pc' = "done"
    /\ UNCHANGED <<neurons, C, S, A, errOK, ifOK, start_weights, counter,
                   widens, widen_ret, pre, prune_model, prune_log, cap_reported,
                   final_weights, y_pred_new, prune_calls, last_fuzz_out>>

\* lines 283-292: the cap test after organize(), then the new predictions
CapCheck ==
    /\ pc = "cap"
    /\ cap_reported' = (neurons >= MaxNeurons)
    /\ pc' = "check"
    /\ start_weights' = NoWeights
    /\ counter' = 0
    /\ widens' = 0
    /\ widen_ret' = "-"
    /\ pre' = NoWeights
    /\ prune_model' = NoWeights
    /\ prune_log' = NoLog
    /\ prune_calls' = 0
    /\ UNCHANGED <<neurons, C, S, A, errOK, ifOK, final_weights, y_pred_new,
                   last_fuzz_out>>

----------------------------------------------------------------------------
(* organize *)

\* lines 313-317: snapshot of the fuzzy weights, then the if-part test
OrganizeStart ==
    /\ pc = "organize"
    /\ start_weights' = <<C, S>>
    /\ counter' = 0
    /\ widens' = 0
    /\ widen_ret' = "-"
    /\ pc' = IF ~ifOK THEN "widen" ELSE "errtest"
    /\ UNCHANGED <<neurons, C, S, A, errOK, ifOK, pre, prune_model, prune_log,
                   cap_reported,
                   final_weights, y_pred_new, prune_calls, last_fuzz_out>>

\* an organize step that adds the neuron to the widened weights
RestoredWeights_kept(start, curr) == curr

\* lines 322-324: the fuzzy weights after the reset to the snapshot
RestoredWeights(start, curr) == IF curr # start THEN start ELSE curr

\* lines 320-324: the error criterion fails: the snapshot is restored if the
\* weights differ from it, and add_neuron is next.  The restored parameters
\* are those line 279 found both criteria false for.
OrganizeAdd ==
    /\ pc = "errtest"
    /\ ~errOK
    /\ LET weights == RestoredWeights(start_weights, <<C, S>>)
       IN  /\ C' = weights[1]
           /\ S' = weights[2]
    /\ IF <<C, S>> # start_weights
       THEN /\ errOK' = FALSE
            /\ ifOK' = FALSE
       ELSE UNCHANGED <<errOK, ifOK>>
    /\ pc' = "add"
    /\ counter' = 0
    /\ widens' = 0
    /\ UNCHANGED <<neurons, A, start_weights, widen_ret, pre, prune_model,
                   prune_log, cap_reported,
                   final_weights, y_pred_new, prune_calls, last_fuzz_out>>

\* line 320: the error criterion holds, no neuron is added
OrganizeNoAdd ==
    /\ pc = "errtest"
    /\ errOK
    /\ pc' = "predict"
    /\ start_weights' = NoWeights
    /\ counter' = 0
    /\ widens' = 0
    /\ widen_ret' = "-"
    /\ UNCHANGED <<neurons, C, S, A, errOK, ifOK, pre, prune_model, prune_log,
                   cap_reported,
                   final_weights, y_pred_new, prune_calls, last_fuzz_out>>

\* line 328: self._train_model() after add_neuron
Retrain ==
    /\ pc = "retrain"
    /\ A' \in TrainedA(neurons)
    /\ Recheck
    /\ pre' = NoWeights
    /\ final_weights' = NoWeights
    /\ pc' = "predict"
    /\ UNCHANGED <<neurons, C, S, start_weights, counter, widens, widen_ret,
                   prune_model, prune_log, cap_reported, y_pred_new,
                   prune_calls, last_fuzz_out>>

\* predictions that are not computed again after the widening and the addition
ModelPredictions_none(c, s, a) == NoWeights

\* self._model_predictions(): predictions of the model as it is when called,
\* named here by the weights they are computed from
ModelPredictions(c, s, a) == <<c, s, a>>

\* line 331: y_pred_new = self._model_predictions()
OrganizePredict ==
    /\ pc = "predict"
    /\ y_pred_new' = ModelPredictions(C, S, A)
    /\ pc' = "prune"
    /\ UNCHANGED <<neurons, C, S, A, errOK, ifOK, start_weights, counter,
                   widens, widen_ret, pre, prune_model, prune_log, cap_reported,
                   final_weights, prune_calls, last_fuzz_out>>

----------------------------------------------------------------------------
(* widen_centers, one action per pass through the loop of lines 355-378 *)

\* line 355 finds the criterion satisfied: the method falls off its end
WidenSuccess ==
    /\ pc = "widen"
    /\ ifOK
    /\ widen_ret' = "None"
    /\ pc' = "errtest"
    /\ UNCHANGED <<neurons, C, S, A, errOK, ifOK, start_weights, counter,
                   widens, pre, prune_model, prune_log, cap_reported,
                   final_weights, y_pred_new, prune_calls, last_fuzz_out>>

\* lines 357-363: the counter exceeds max_widens
WidenBailout ==
    /\ pc = "widen"
    /\ ~ifOK
    /\ counter' = counter + 1
    /\ Bailout(counter')
    /\ widen_ret' = BailoutResult
    /\ pc' = "errtest"
    /\ UNCHANGED <<neurons, C, S, A, errOK, ifOK, start_weights, widens, pre,
                   prune_model, prune_log, cap_reported,
                   final_weights, y_pred_new, prune_calls, last_fuzz_out>>

\* lines 357-378: one width is multiplied by ksig and written back.  keep
\* says whether the history variables record the iteration: the run of
\* self_organize does not record it, WidenSpec does.
WidenStep(keep) ==
    /\ pc = "widen"
    /\ ~ifOK
    /\ counter' = counter + 1
    /\ ~Bailout(counter')
    /\ \E fuzz_out \in [Samples -> [1 .. neurons -> FireVals]] :
          LET max_neuron == MaxNeuron(fuzz_out, neurons)
              mf_min == MfMin(S[max_neuron])
          IN  /\ S' = Widened(S, max_neuron, mf_min)
              /\ last_fuzz_out' = IF keep THEN fuzz_out ELSE NoWeights
    /\ pre' = IF keep THEN <<neurons, C, S, A>> ELSE pre
    /\ TotalExp(S) < MaxExp
    /\ widens' = widens + 1
    /\ Recheck
    /\ UNCHANGED <<pc, neurons, C, A, start_weights, widen_ret, prune_model,
                   prune_log, cap_reported, final_weights, y_pred_new,
                   prune_calls>>

\* an iteration of widen_centers within organize
WidenIterate == WidenStep(FALSE)

\* the widths already hold MaxExp factors ksig: the run leaves the model
WidenBeyondBound ==
    /\ pc = "widen"
    /\ ~ifOK
    /\ ~Bailout(counter + 1)
    /\ TotalExp(S) >= MaxExp
    /\ pc' = "bound"
    /\ UNCHANGED <<neurons, C, S, A, errOK, ifOK, start_weights, counter,
                   widens, widen_ret, pre, prune_model, prune_log, cap_reported,
                   final_weights, y_pred_new, prune_calls, last_fuzz_out>>

----------------------------------------------------------------------------
(* add_neuron *)

\* lines 404-411: the model is rebuilt for n neurons and only the fuzzy
\* weights are set again; line 419 then trains it
RebuiltA(old_a, n) == TrainedA(n)

\* v in units of 1e-4, the resolution at which a readback is compared
Fine(v) == 10000 * v

\* what get_layer_weights can return for an entry after set_weights, as its
\* difference from the written value in units of 1e-4: the value written, a
\* value one unit off, a value a hundred units off
ReadbackDevs == {0, 1, 100}

\* np.allclose(a, b, 1e-3) for one entry: |a - b| <= atol + rtol * |b| with
\* rtol = 1/RTolInv; a and b are integers in one unit, and the default atol
\* of 1e-8 is below that unit
AllClose(a, b) == Abs(a - b) * RTolInv <= Abs(b)

\* line 415 for the first entry of the new column: written centre ck, read
\* back ck + dev
CentresClose(ck, dev) == AllClose(Fine(ck), Fine(ck) + dev)

\* line 416 for the first entry of the new column: written width
\* sk.b * ksig^sk.k, read back that + dev; both over KsigDen^sk.k
WidthsClose(sk, dev) ==
    AllClose(Fine(sk.b) * Pow(KsigNum, sk.k),
             Fine(sk.b) * Pow(KsigNum, sk.k) + dev * Pow(KsigDen, sk.k))

\* a validation that compares the centres only
ReadbackValid_centres(ck, sk, devs) == CentresClose(ck, devs.c)

\* lines 415-416: both asserts pass
ReadbackValid(ck, sk, devs) ==
    /\ CentresClose(ck, devs.c)
    /\ WidthsClose(sk, devs.s)

\* lines 393-419 when the asserts of lines 415-416 pass: the neuron is added
\* and the model trained
AddNeuron ==
    /\ pc = "add"
    /\ neurons < NeuronLimit
    /\ LET new == NewNeuronWeights(C, S)
       IN  /\ C' = Append(C, new.ck)
           /\ S' = Append(S, new.sk)
           /\ \E devs \in [c : ReadbackDevs, s : ReadbackDevs] :
                 /\ ReadbackValid(new.ck[1], new.sk[1], devs)
                 /\ final_weights' = devs
    /\ neurons' = neurons + 1
    /\ A' \in RebuiltA(A, neurons + 1)
    /\ Recheck
    /\ pre' = <<neurons, C, S, A>>
    /\ pc' = "retrain"
    /\ start_weights' = NoWeights
    /\ widen_ret' = "-"
    /\ UNCHANGED <<counter, widens, prune_model, prune_log, cap_reported,
                   y_pred_new, prune_calls, last_fuzz_out>>

\* lines 393-416 when an assert of lines 415-416 fails: the AssertionError
\* leaves add_neuron, organize and self_organize, none of which catches it;
\* the count was raised and the model rebuilt (lines 406-411) before it
AddNeuronAbort ==
    /\ pc = "add"
    /\ neurons < NeuronLimit
    /\ LET new == NewNeuronWeights(C, S)
       IN  /\ C' = Append(C, new.ck)
           /\ S' = Append(S, new.sk)
           /\ \E devs \in [c : ReadbackDevs, s : ReadbackDevs] :
                 /\ ~ReadbackValid(new.ck[1], new.sk[1], devs)
                 /\ final_weights' = devs
    /\ neurons' = neurons + 1
    /\ A' \in RebuiltA(A, neurons + 1)
    /\ Recheck
    /\ pre' = <<neurons, C, S, A>>
    /\ pc' = "aborted"
    /\ start_weights' = NoWeights
    /\ widen_ret' = "-"
    /\ UNCHANGED <<counter, widens, prune_model, prune_log, cap_reported,
                   y_pred_new, prune_calls, last_fuzz_out>>

\* the model does not follow a run past NeuronLimit neurons
AddBeyondBound ==
    /\ pc = "add"
    /\ neurons >= NeuronLimit
    /\ pc' = "bound"
    /\ UNCHANGED <<neurons, C, S, A, errOK, ifOK, start_weights, counter,
                   widens, widen_ret, pre, prune_model, prune_log, cap_reported,
                   final_weights, y_pred_new, prune_calls, last_fuzz_out>>

----------------------------------------------------------------------------
(* prune_neurons, called at line 332 with the predictions y_pred_new.       *)
(* keep says whether the history variables record the call: the run of      *)
(* self_organize records only whether the neuron sorted last was tried,     *)
(* PruneSpec records the call.                                              *)

PruneCall(keep) ==
    /\ pc = "prune"
    /\ pc' = "cap"
    /\ pre' = IF keep THEN <<neurons, C, S, A>> ELSE NoWeights
    /\ IF OnlyOneNeuron(neurons)
       THEN \* lines 504-507
            /\ prune_log' = IF keep THEN [NoLog EXCEPT !.n = neurons] ELSE NoLog
            /\ prune_model' = NoWeights
            /\ UNCHANGED <<neurons, C, S, A, errOK, ifOK>>
       ELSE \E E0 \in E0Vals,
               singles \in [1 .. neurons -> MAEVals],
               cum \in [2 .. NumCandidates(neurons) -> MAEVals] :
            LET delta_E == [j \in 1 .. neurons |-> singles[j] - E0]
                E100 == Tolerance100(E0)
            IN  \E order \in ArgSort(delta_E, neurons) :
                LET cands == SubSeq(order, 1, NumCandidates(neurons))
                    res == SearchLoop(cands, 1, << >>, << >>, singles, cum, E100)
                    deleted == res.deleted
                    \* columns zeroed in the duplicate by the last trial
                    last_zeroed == IF res.tried = << >> THEN {neurons}
                                   ELSE Range(SubSeq(cands, 1, Len(res.tried)))
                    \* the neuron sorted last was among those tried
                    top_tried == order[neurons] \in
                                     Range(SubSeq(cands, 1, Len(res.tried)))
                    \* MAE with all deleted columns zeroed together
                    joint == IF deleted = << >> THEN 0
                             ELSE MaeZeroed(Range(deleted), singles, cum)
                IN  /\ prune_log' =
                          IF keep
                          THEN [n |-> neurons, E100 |-> E100,
                                delta_E |-> delta_E, tried |-> res.tried,
                                deleted |-> deleted,
                                predicts |-> neurons + Len(res.tried),
                                joint |-> joint, top_tried |-> top_tried]
                          ELSE [NoLog EXCEPT !.top_tried = top_tried]
                    /\ IF deleted = << >>
                       THEN \* lines 575-578
                            /\ prune_model' =
                                  IF keep THEN ZeroCols(A, last_zeroed) ELSE NoWeights
                            /\ A' = LiveWeights(A, ZeroCols(A, last_zeroed))
                            /\ UNCHANGED <<neurons, C, S, errOK, ifOK>>
                       ELSE \* lines 584-596
                            /\ prune_model' = IF keep THEN A ELSE NoWeights
                            /\ C' = NpDelete(C, deleted)
                            /\ S' = NpDelete(S, deleted)
                            /\ A' = NpDelete(A, deleted)
                            /\ neurons' = neurons - DeletedCount(deleted)
                            /\ Recheck
    /\ y_pred_new' = NoWeights
    /\ prune_calls' = prune_calls + 1
    /\ UNCHANGED <<start_weights, counter, widens, widen_ret, cap_reported,
                   final_weights, last_fuzz_out>>

\* prune_neurons within organize
PruneNeurons == PruneCall(FALSE)

----------------------------------------------------------------------------

Next ==
    \/ TrainModel
    \/ LoopEnter
    \/ LoopExit
    \/ CapCheck
    \/ OrganizeStart
    \/ OrganizeAdd
    \/ OrganizeNoAdd
    \/ Retrain
    \/ OrganizePredict
    \/ WidenSuccess
    \/ WidenBailout
    \/ WidenIterate
    \/ WidenBeyondBound
    \/ AddNeuron
    \/ AddNeuronAbort
    \/ AddBeyondBound
    \/ PruneNeurons

Spec == Init /\ [][Next]_vars

\* the interpreter runs the next statement: the run never stops by itself
FairSpec == Spec /\ WF_vars(Next)

----------------------------------------------------------------------------
(* prune_neurons on its own: the call is entered with any model of up to    *)
(* PruneMaxN neurons whose matrices are in lock-step; the columns of C and  *)
(* S differ from neuron to neuron, so that a column can be told by its value *)

PruneInit ==
    /\ pc = "prune"
    /\ neurons \in 1 .. PruneMaxN
    /\ C = [j \in 1 .. neurons |-> <<XTrain[1][1] + j, XTrain[1][2] - j>>]
    /\ S = [j \in 1 .. neurons |-> [f \in Features |-> [b |-> S0 + j, k |-> 0]]]
    /\ A \in TrainedA(neurons)
    /\ errOK \in BOOLEAN
    /\ ifOK \in BOOLEAN
    /\ start_weights = NoWeights
    /\ counter = 0
    /\ widens = 0
    /\ widen_ret = "-"
    /\ pre = NoWeights
    /\ prune_model = NoWeights
    /\ prune_log = NoLog
    /\ cap_reported = FALSE
    /\ final_weights = NoWeights
    /\ y_pred_new = ModelPredictions(C, S, A)
    /\ prune_calls = 0
    /\ last_fuzz_out = NoWeights

PruneNeuronsLogged == PruneCall(TRUE)

PruneNext == PruneNeuronsLogged

PruneSpec == PruneInit /\ [][PruneNext]_vars

----------------------------------------------------------------------------
(* widen_centers on its own: the call is entered, with the if-part         *)
(* criterion false, on any model of up to WidenMaxN neurons whose widths    *)
(* are s_0 or s_0 + 1 in each feature, not both s_0 + 1                     *)

WidthColumns ==
    {[f \in Features |-> [b |-> S0 + (IF f = g THEN 1 ELSE 0), k |-> 0]] :
        g \in Features \cup {0}}

WidenInit ==
    /\ pc = "widen"
    /\ neurons \in 1 .. WidenMaxN
    /\ C = [j \in 1 .. neurons |-> <<XTrain[1][1] + j, XTrain[1][2] - j>>]
    /\ S \in [1 .. neurons -> WidthColumns]
    /\ A = [j \in 1 .. neurons |-> ConstCol(j % 2)]
    /\ errOK = FALSE
    /\ ifOK = FALSE
    /\ start_weights = <<C, S>>
    /\ counter = 0
    /\ widens = 0
    /\ widen_ret = "-"
    /\ pre = NoWeights
    /\ prune_model = NoWeights
    /\ prune_log = NoLog
    /\ cap_reported = FALSE
    /\ final_weights = NoWeights
    /\ y_pred_new = NoWeights
    /\ prune_calls = 0
    /\ last_fuzz_out = NoWeights

WidenIterateLogged == WidenStep(TRUE)

WidenNext ==
    \/ WidenIterateLogged
    \/ WidenSuccess
    \/ WidenBailout

WidenSpec == WidenInit /\ [][WidenNext]_vars

----------------------------------------------------------------------------
(* Claims *)

\* C1: whenever the loop of self_organize is left while the neuron count is
\* below max_neurons, error_criterion() and if_part_criterion() are both true.
ExitMeansBothCriteria ==
    (pc = "done" /\ neurons < MaxNeurons) => (errOK /\ ifOK)

\* C2: once the cap test after an organize step has found
\* neurons >= max_neurons, no further organize step is started.
NoOrganizeAfterCap ==
    pc = "organize" => ~cap_reported

\* C3: every run of self_organize eventually reaches its terminal state (a
\* run that leaves the bounds of the model, or that add_neuron aborts, is not
\* counted against the claim).
SelfOrganizeTerminates ==
    <>(pc = "done" \/ pc = "bound" \/ pc = "aborted")

\* C4 as stated: when widen_centers returns, its iteration counter is at
\* most max_widens.
WidenCounterWithinMax ==
    (pc = "errtest" /\ widen_ret # "-") => counter <= MaxWidens

\* C4 as amended: widen_centers multiplies at most max_widens widths; while
\* it loops and when it returns on success its counter is at most max_widens
\* and equals the number of multiplications; when it bails out the counter is
\* exactly max_widens + 1 after exactly max_widens multiplications.
WidenBounded ==
    /\ widens <= MaxWidens
    /\ pc = "widen" => (counter <= MaxWidens /\ widens = counter)
    /\ (pc = "errtest" /\ widen_ret = "None") =>
           (counter <= MaxWidens /\ widens = counter)
    /\ (pc = "errtest" /\ widen_ret = "False") =>
           (counter = MaxWidens + 1 /\ widens = MaxWidens)

\* a bailout after max_widens multiplications
WidenBailedOut ==
    /\ pc = "errtest"
    /\ widen_ret = "False"
    /\ counter = MaxWidens + 1
    /\ widens = MaxWidens

\* C5: widen_centers returns False exactly when its counter exceeded
\* max_widens while if_part_criterion() was false; after any other return
\* if_part_criterion() is true.
WidenReturnValue ==
    (pc = "errtest" /\ widen_ret # "-") =>
        /\ (widen_ret = "False") <=> (counter > MaxWidens /\ ~ifOK)
        /\ (widen_ret # "False") => ifOK

\* a successful return after a width was multiplied
WidenSucceeded ==
    /\ pc = "errtest"
    /\ widen_ret = "None"
    /\ widens >= 1
    /\ ifOK

\* C6: after add_neuron the model has one neuron more, C, S and A have one
\* column more, and their first n columns are what they were before the call.
AddNeuronKeepsColumns ==
    pc = "retrain" =>
        LET n == pre[1]
        IN  /\ neurons = n + 1
            /\ Len(C) = n + 1 /\ Len(S) = n + 1 /\ Len(A) = n + 1
            /\ \A j \in 1 .. n :
                  C[j] = pre[2][j] /\ S[j] = pre[3][j] /\ A[j] = pre[4][j]

\* C7: after prune_neurons has deleted the non-empty set P, the neuron count
\* is n - |P| and C, S and A hold exactly the columns outside P, in their
\* old order and with their old values.
PruneDeletesExactlyP ==
    (pc = "cap" /\ prune_log.deleted # << >>) =>
        LET n == pre[1]
            P == Range(prune_log.deleted)
            Rank(j) == j - Cardinality({q \in P : q < j})
        IN  /\ Cardinality(P) = Len(prune_log.deleted)
            /\ neurons = n - Cardinality(P)
            /\ Len(C) = neurons /\ Len(S) = neurons /\ Len(A) = neurons
            /\ \A j \in (1 .. n) \ P :
                  /\ C[Rank(j)] = pre[2][j]
                  /\ S[Rank(j)] = pre[3][j]
                  /\ A[Rank(j)] = pre[4][j]

\* two of three neurons deleted, the first and a later one
PrunedTwoOfThree ==
    /\ pc = "cap"
    /\ prune_log.n = 3
    /\ Len(prune_log.deleted) = 2
    /\ 1 \in Range(prune_log.deleted)
    /\ neurons = 1

\* C8: prune_neurons entered with one neuron returns at once: no trial
\* prediction is made, no duplicate model is touched, and the neuron count,
\* C, S and A are what they were.
PruneOneNeuronNoOp ==
    (pc = "cap" /\ prune_log.n = 1) =>
        /\ <<neurons, C, S, A>> = pre
        /\ prune_log.predicts = 0
        /\ prune_log.deleted = << >>
        /\ prune_model = NoWeights

\* prune_neurons has returned from a call with one neuron
PrunedWithOneNeuron ==
    /\ pc = "cap"
    /\ prune_log.n = 1
    /\ neurons = 1

\* C9: the deleted neurons are a prefix of an ascending-delta order of the
\* neurons without its last (highest-delta) one; each was accepted with
\* its cumulative MAE below E, and the search stopped at the first candidate
\* whose MAE was not below E.
PruneGreedyPrefix ==
    (pc = "cap" /\ prune_log.n >= 2) =>
        LET L == prune_log
            k == Len(L.deleted)
        IN  /\ k <= L.n - 1
            /\ \E p \in Permutations(1 .. L.n) :
                  /\ \A i \in 1 .. L.n - 1 : L.delta_E[p[i]] <= L.delta_E[p[i + 1]]
                  /\ L.deleted = SubSeq(p, 1, k)
            /\ \A i \in 1 .. k : L.tried[i] * 100 < L.E100
            /\ IF k < L.n - 1
               THEN Len(L.tried) = k + 1 /\ L.tried[k + 1] * 100 >= L.E100
               ELSE Len(L.tried) = k

\* the example: two neurons in ascending order [1, 0] (here <<2, 1>>),
\* E = 0.1, MAE 0.08 with neuron 1 (here 2) zeroed: only that neuron deleted
PruneExample ==
    /\ pc = "cap"
    /\ prune_log.n = 2
    /\ prune_log.delta_E[2] < prune_log.delta_E[1]
    /\ prune_log.E100 = 1000
    /\ prune_log.tried = <<8>>
    /\ prune_log.deleted = <<2>>
    /\ neurons = 1

\* C10: when prune_neurons accepts no candidate, the live model is what it
\* was before the call, although trial predictions were made on a duplicate
\* whose consequent-weight columns were zeroed.
PruneNothingLeavesModel ==
    (pc = "cap" /\ prune_log.n >= 2 /\ prune_log.deleted = << >>) =>
        /\ <<neurons, C, S, A>> = pre
        /\ prune_log.predicts = prune_log.n + 1
        /\ \E j \in 1 .. prune_log.n : prune_model[j] = ConstCol(0)

\* nothing pruned while the duplicate differs from the live model
PrunedNothing ==
    /\ pc = "cap"
    /\ prune_log.n >= 2
    /\ prune_log.deleted = << >>
    /\ prune_model # A
    /\ A = pre[4]

\* C11: in every state between completed operations of self_organize, C, S
\* and A have the same number of columns, and that number is the neuron count.
LockStep ==
    /\ Len(C) = neurons
    /\ Len(S) = neurons
    /\ Len(A) = neurons

\* an organize step has pruned a model that an earlier step had grown to the
\* cap: one neuron is left and the three matrices have one column
LockStepAfterAddAndPrune ==
    /\ pc = "cap"
    /\ cap_reported
    /\ neurons = 1
    /\ Len(C) = 1 /\ Len(S) = 1 /\ Len(A) = 1

\* C12: add_neuron goes on to train the model only when the centres and the
\* widths read back after the rebuild are those written, within the tolerance
\* of lines 415-416; when either differs it aborts, and nothing of
\* self_organize runs after the abort.
ReadbackMismatchAborts ==
    /\ final_weights # NoWeights => pc \in {"retrain", "aborted"}
    /\ pc = "retrain" =>
           /\ CentresClose(C[neurons][1], final_weights.c)
           /\ WidthsClose(S[neurons][1], final_weights.s)
    /\ pc = "aborted" =>
           /\ \/ ~CentresClose(C[neurons][1], final_weights.c)
              \/ ~WidthsClose(S[neurons][1], final_weights.s)
           /\ ~ENABLED Next

\* an abort on the widths alone: the centres were read back as written
AbortedOnWidths ==
    /\ pc = "aborted"
    /\ final_weights.c = 0
    /\ final_weights.s = 100
    /\ neurons = pre[1] + 1

\* C13: self_organize reports success only when error_criterion() and
\* if_part_criterion() both hold at termination.
SuccessOnlyWithBothCriteria ==
    SuccessReported => (errOK /\ ifOK)

\* C14: after a bailout of widen_centers the organize step takes the
\* add-neuron branch: add_neuron is what it does next.
BailoutProceedsToAdd ==
    (pc = "errtest" /\ widen_ret = "False") =>
        (ENABLED OrganizeAdd /\ ~ENABLED OrganizeNoAdd)

\* C15: when the error criterion fails after the widening phase, add_neuron
\* is entered with the centres and widths of the snapshot taken at the start
\* of the organize step.
AddStartsFromSnapshot ==
    pc = "add" => (C = start_weights[1] /\ S = start_weights[2])

\* add_neuron is about to run after a widening that bailed out: the widths
\* hold no factor ksig any more
WideningDiscarded ==
    /\ pc = "add"
    /\ widen_ret = "False"
    /\ <<C, S>> = start_weights
    /\ TotalExp(S) = 0

\* C16: an organize step calls prune_neurons once, as the last thing it
\* does, and with predictions computed from the model as the widening, the
\* addition and the training of that step left it.
PrunesOnceWithLatest ==
    /\ pc \in {"widen", "errtest", "add", "retrain", "predict", "prune"} =>
           prune_calls = 0
    /\ pc = "prune" => y_pred_new = <<C, S, A>>
    /\ pc = "cap" => prune_calls = 1

\* prune_neurons is about to run in the step that added the second neuron:
\* the predictions are those of the two-neuron model
PredictionsAfterAdd ==
    /\ pc = "prune"
    /\ ~cap_reported
    /\ neurons = 2
    /\ Len(y_pred_new[3]) = 2
    /\ y_pred_new = <<C, S, A>>

\* C17: an iteration of widen_centers multiplies one entry of S by ksig and
\* leaves the other entries of S, the centres C, the consequent weights A and
\* the neuron count as they were.
WidenChangesOneWidth ==
    last_fuzz_out # NoWeights =>
        LET s_old == pre[3]
        IN  /\ neurons = pre[1]
            /\ C = pre[2]
            /\ A = pre[4]
            /\ Len(S) = Len(s_old)
            /\ \E j \in 1 .. neurons, f \in Features :
                  /\ S[j][f] = [b |-> s_old[j][f].b, k |-> s_old[j][f].k + 1]
                  /\ \A m \in 1 .. neurons, e \in Features :
                        <<m, e>> # <<j, f>> => S[m][e] = s_old[m][e]

\* widen_centers has returned on success after widening one width of the
\* second of two neurons
WidenedOneOfTwo ==
    /\ pc = "errtest"
    /\ widen_ret = "None"
    /\ last_fuzz_out # NoWeights
    /\ neurons = 2
    /\ TotalExp(S) = 1
    /\ S[2] # pre[3][2]

\* C18: the entry an iteration of widen_centers widens is S[d, k]: k is the
\* neuron that is the arg-max of the layer output for the most samples, d the
\* feature of the smallest width of neuron k; equal outputs, equal counts and
\* equal widths all give the lowest index.
WidenedEntryIsChosen ==
    last_fuzz_out # NoWeights =>
        LET s_old == pre[3]
            n == pre[1]
            \* j is the lowest neuron of the largest output for sample i
            FiresMost(i, j) ==
                \A m \in 1 .. n :
                    /\ last_fuzz_out[i][m] <= last_fuzz_out[i][j]
                    /\ m < j => last_fuzz_out[i][m] < last_fuzz_out[i][j]
            Count(j) == Cardinality({i \in Samples : FiresMost(i, j)})
        IN  \A j \in 1 .. n, f \in Features :
                S[j][f] # s_old[j][f] =>
                    /\ \A m \in 1 .. n :
                          /\ Count(m) <= Count(j)
                          /\ m < j => Count(m) < Count(j)
                    /\ \A e \in Features :
                          /\ ~WidthLess(s_old[j][e], s_old[j][f])
                          /\ e < f => WidthLess(s_old[j][f], s_old[j][e])

\* two neurons; the first sample fires both alike, the second fires neuron 2
\* more: each neuron is the arg-max of one sample and neuron 1 is chosen; its
\* second width is the smaller one
WidenedOnTies ==
    /\ pc = "widen"
    /\ neurons = 2
    /\ last_fuzz_out = << <<1, 1>>, <<0, 1>> >>
    /\ WidthLess(pre[3][1][2], pre[3][1][1])
    /\ S[1][2].k = 1

\* C19: the MAE of the model with all deleted columns zeroed together is
\* strictly below E = max(prune_tol * E0, k_mae): the set is accepted on the
\* joint trial, not on the trials of its members alone.
PrunedSetWithinTolerance ==
    (pc = "cap" /\ prune_log.deleted # << >>) =>
        prune_log.joint * 100 < prune_log.E100

\* three neurons whose single trials are all alike and below E; the second
\* candidate is rejected on the joint trial of two columns, one neuron is
\* deleted
RejectedOnJointTrial ==
    /\ pc = "cap"
    /\ prune_log.n = 3
    /\ \A j \in 1 .. 3 : prune_log.delta_E[j] = prune_log.delta_E[1]
    /\ prune_log.tried = <<8, 12>>
    /\ prune_log.E100 = 1000
    /\ Len(prune_log.deleted) = 1
    /\ prune_log.joint = 8
    /\ neurons = 2

\* C20: the model has at least one neuron in every state: prune_neurons
\* never tries the neuron its sort puts last, and so deletes at most n - 1 of
\* n neurons.
RetainsOneNeuron ==
    /\ neurons >= 1
    /\ Len(C) >= 1 /\ Len(S) >= 1 /\ Len(A) >= 1
    /\ ~prune_log.top_tried

\* a model that had reached the cap has been pruned down to its last neuron,
\* and the loop goes on with it
PrunedToLastNeuron ==
    /\ pc = "cap"
    /\ cap_reported
    /\ neurons = 1
    /\ ~errOK /\ ~ifOK
    /\ prune_calls = 1

\* C21: the column add_neuron appends is, feature by feature: with m the
\* lowest neuron of the smallest mean absolute distance between the samples'
\* feature f and the centre C[f, j], and dist that distance, the centre
\* C[f, m] and the width S[f, m] when dist <= dist_thresh * mean of feature f,
\* else the mean of feature f and the width dist.
NewNeuronFromNearest ==
    pc = "retrain" =>
        LET c == pre[2]
            s == pre[3]
            n == pre[1]
            DistSum(f, j) ==
                SumOver([i \in Samples |-> Abs(XTrain[i][f] - c[j][f])], Samples)
            XSum(f) == SumOver([i \in Samples |-> XTrain[i][f]], Samples)
            Nearest(f) ==
                CHOOSE j \in 1 .. n :
                    \A m \in 1 .. n :
                        /\ DistSum(f, j) <= DistSum(f, m)
                        /\ m < j => DistSum(f, j) < DistSum(f, m)
        IN  \A f \in Features :
                LET m == Nearest(f)
                IN  IF DistSum(f, m) <= DistThresh * XSum(f)
                    THEN /\ C[neurons][f] = c[m][f]
                         /\ S[neurons][f] = s[m][f]
                    ELSE /\ C[neurons][f] * NSamples = XSum(f)
                         /\ S[neurons][f].k = 0
                         /\ S[neurons][f].b * NSamples = DistSum(f, m)

\* C22: the neuron count never exceeds max_neurons during self_organize.
NeuronsWithinCap ==
    neurons <= MaxNeurons

====
